---------------------------- MODULE Spec2Model ----------------------------
(***************************************************************************)
(* A model of instance_manager.py (imgr): main() parses the arguments,     *)
(* loads the site and the user configuration, resolves the instance ids,   *)
(* builds an InstancePool and runs one of start / stop / reboot / state    *)
(* over the pool, sequentially, with an optional blocking poll loop.       *)
(*                                                                         *)
(* Strings the program takes apart (the instances argument, instance ids,  *)
(* group names) are sequences of one-character strings.  The cloud         *)
(* provider (boto / EC2) is outside the program: every state it reports is *)
(* a nondeterministic choice among the six state codes, and every          *)
(* transition or status call may raise.                                    *)
(***************************************************************************)
EXTENDS Integers, Sequences, FiniteSets, TLC

VARIABLES
    args,           \* the parsed command line (parse_args)
    siteFile,       \* content of /etc/imgr.yaml, or unreadable
    userFile,       \* content of ~/.imgr.yaml, or unreadable
    data,           \* Config.data
    warnings,       \* the config types logging.warn was called for
    instance_ids,   \* main's local `instances`, handed to InstancePool
    pool_dry_run,   \* InstancePool._dry_run
    pool_blocking,  \* InstancePool._blocking
    instances,      \* InstancePool._instances: handles fetched at construction
    pc,             \* where the process is
    i,              \* index of the instance the running operation is at
    phase,          \* position inside the loop body: "top", "call" or "wait"
    status,         \* per instance, the last code _get_status returned for it
    out,            \* the lines printed so far
    calls,          \* the transition calls issued so far, in order
    connects,       \* number of connect_to_region calls made
    resolve,        \* outcome of get_only_instances: "none", "ok" or "error"
    exit_code       \* the process's exit status, NotExited while it runs

vars == <<args, siteFile, userFile, data, warnings, instance_ids, pool_dry_run,
          pool_blocking, instances, pc, i, phase, status, out, calls,
          connects, resolve, exit_code>>

---------------------------------------------------------------------------
(* Bounds of the model *)

MaxInstances == 2

---------------------------------------------------------------------------
(* AWS instance state codes *)

PENDING == 0
RUNNING == 16
SHUTTING_DOWN == 32
TERMINATED == 48
STOPPING == 64
STOPPED == 80

StateCodes == {PENDING, RUNNING, SHUTTING_DOWN, TERMINATED, STOPPING, STOPPED}

\* marks an instance _get_status was never called for
Unpolled == PENDING - 1

\* marks a process that has not exited
NotExited == PENDING - 1

Commands == {"start", "stop", "reboot", "state"}

---------------------------------------------------------------------------
(* Values *)

None == [some |-> FALSE, v |-> <<>>]
Some(x) == [some |-> TRUE, v |-> x]

\* a slip: only None is taken for "no ids" (`instance_ids is None`)
NoIds_OnlyNone(ids) == ~ids.some

\* Python truthiness of `not instance_ids` for None and for a list
NoIds(ids) == ~ids.some \/ ids.v = <<>>

EmptyDict == [k \in {} |-> <<>>]

\* dict.update(m) for a mapping m: keys of m overwrite, value replaced whole
Update(d, m) ==
    [k \in DOMAIN d \cup DOMAIN m |-> IF k \in DOMAIN m THEN m[k] ELSE d[k]]

\* dict.get(key): the value, or None when the key is absent
Get(d, key) == IF key \in DOMAIN d THEN Some(d[key]) ELSE None

\* dict.update(items) for a list: each element is taken as a key/value pair
\* and inserted in turn; the first element that is no pair raises, and the
\* pairs inserted before it stay
RECURSIVE UpdateFromSeq(_, _)
UpdateFromSeq(d, items) ==
    IF items = <<>> THEN [data |-> d, raised |-> FALSE]
    ELSE IF ~Head(items).pair THEN [data |-> d, raised |-> TRUE]
    ELSE UpdateFromSeq(Update(d, Head(items).k :> Head(items).v), Tail(items))

\* the try block of Config._load_config: self.data.update(yaml.safe_load(f)).
\* open() or safe_load() raising leaves the dict as it was.
LoadConfig(d, file) ==
    CASE file.kind = "error" -> [data |-> d, raised |-> TRUE]
      [] file.kind = "dict" -> [data |-> Update(d, file.map), raised |-> FALSE]
      [] file.kind = "list" -> UpdateFromSeq(d, file.items)

\* Config._load_config: an exception is logged as a warning, nothing more
LoadConfigFile(type, file) ==
    LET r == LoadConfig(data, file)
    IN  /\ data' = r.data
        /\ warnings' = IF r.raised THEN Append(warnings, type) ELSE warnings

\* index of the first occurrence of the delimiter in s, 0 when absent
RECURSIVE Find(_, _, _)
Find(s, d, k) ==
    IF k > Len(s) THEN 0
    ELSE IF s[k] = d THEN k
    ELSE Find(s, d, k + 1)

\* str.split(d) for a one-character delimiter
RECURSIVE Split(_, _)
Split(s, d) ==
    LET k == Find(s, d, 1)
    IN  IF k = 0 THEN <<s>>
        ELSE <<SubSeq(s, 1, k - 1)>> \o Split(SubSeq(s, k + 1, Len(s)), d)

\* a slip: the non-blocking flag is dropped
Blocking_Always(a) == TRUE

\* blocking=False if args.non_blocking else True

Blocking(a) == IF a.non_blocking THEN FALSE ELSE TRUE

---------------------------------------------------------------------------
(* Inputs *)

IdChars == <<"a", "b", "c", "d">>

\* the ids the provider knows
Known == { <<IdChars[n]>> : n \in 1..MaxInstances }

\* an id the provider does not know
BadId == <<"x">>

Comma == ","
Delimiters == {Comma, ";"}

RECURSIVE Ascending(_)
Ascending(T) ==
    IF T = {} THEN <<>>
    ELSE LET m == CHOOSE x \in T : \A y \in T : x <= y
         IN  <<<<IdChars[m]>>>> \o Ascending(T \ {m})

\* every list of distinct known ids in ascending order, with or without a
\* trailing unknown id
IdLists ==
    { Ascending(T) \o tail : T \in SUBSET (1..MaxInstances),
                             tail \in {<<>>, <<BadId>>} }

ValidIdLists == { Ascending(T) : T \in SUBSET (1..MaxInstances) }

RECURSIVE Join(_, _)
Join(l, d) ==
    IF l = <<>> THEN <<>>
    ELSE IF Len(l) = 1 THEN l[1]
    ELSE l[1] \o <<d>> \o Join(Tail(l), d)

\* the instances argument as typed: ids joined by a comma or a semicolon
RawArgs == { Join(l, d) : l \in IdLists, d \in Delimiters }

Web == <<"w">>
Db == <<"d">>
GroupNames == {Web, Db}

\* what open() and yaml.safe_load() make of a file: an exception (no file,
\* no YAML, nothing in it), a mapping, or a list
Unreadable == [kind |-> "error", map |-> EmptyDict, items |-> <<>>]
File(m) == [kind |-> "dict", map |-> m, items |-> <<>>]
ListFile(l) == [kind |-> "list", map |-> EmptyDict, items |-> l]

\* the elements of a list: a two-element list [group, ids], or anything else
Pair(k, v) == [pair |-> TRUE, k |-> k, v |-> v]
Junk == [pair |-> FALSE, k |-> <<>>, v |-> <<>>]

\* every mapping from some of the group names to a list of known ids
Mappings ==
    UNION { [G -> ValidIdLists] : G \in SUBSET GroupNames }

ListItems == { Pair(g, <<<<IdChars[1]>>>>) : g \in GroupNames } \cup {Junk}

Lists ==
    { <<x>> : x \in ListItems } \cup { <<x, y>> : x \in ListItems, y \in ListItems }

ConfigFiles ==
    {Unreadable} \cup { File(m) : m \in Mappings } \cup { ListFile(l) : l \in Lists }

\* the configuration files of the runs that use a group
SiteFiles ==
    {Unreadable, File((Web :> <<<<"a">>>>) @@ (Db :> <<>>))}
UserFiles ==
    {Unreadable, File(Web :> <<<<"a">>, BadId>>),
     File(Web :> Ascending(1..MaxInstances))}

Flags ==
    [command : Commands, dry_run : BOOLEAN, non_blocking : BOOLEAN]

Args(f, g, d, s) ==
    [command |-> f.command, group |-> g, dry_run |-> f.dry_run,
     non_blocking |-> f.non_blocking, delimiter |-> d, instances |-> s]

---------------------------------------------------------------------------
(* The state after parse_args, before Config() *)

AfterParseArgs(a, site, user) ==
    /\ args = a
    /\ siteFile = site
    /\ userFile = user
    /\ data = EmptyDict
    /\ warnings = <<>>
    /\ instance_ids = None
    /\ pool_dry_run = FALSE
    /\ pool_blocking = FALSE
    /\ instances = <<>>
    /\ pc = "load_site"
    /\ i = 1
    /\ phase = "top"
    /\ status = <<>>
    /\ out = <<>>
    /\ calls = <<>>
    /\ connects = 0
    /\ resolve = "none"
    /\ exit_code = NotExited

Init ==
    \/ \E f \in Flags, d \in Delimiters, s \in RawArgs :
          AfterParseArgs(Args(f, FALSE, d, s), Unreadable, Unreadable)
    \/ \E f \in Flags, g \in GroupNames, site \in SiteFiles, user \in UserFiles :
          AfterParseArgs(Args(f, TRUE, Comma, g), site, user)

\* the runs that exercise the configuration loader alone
ConfigInit ==
    \E site \in ConfigFiles, user \in ConfigFiles :
        AfterParseArgs(Args([command |-> "state", dry_run |-> FALSE,
                    non_blocking |-> FALSE], TRUE, Comma, Web), site, user)

---------------------------------------------------------------------------
(* Config.__init__ *)

LoadSite ==
    /\ pc = "load_site"
    /\ LoadConfigFile("site", siteFile)
    /\ pc' = "load_user"
    /\ UNCHANGED <<args, siteFile, userFile, instance_ids, pool_dry_run,
                   pool_blocking, instances, i, phase, status, out, calls,
                   connects, resolve, exit_code>>

LoadUser ==
    /\ pc = "load_user"
    /\ LoadConfigFile("user", userFile)
    /\ pc' = "resolve_ids"
    /\ UNCHANGED <<args, siteFile, userFile, instance_ids, pool_dry_run,
                   pool_blocking, instances, i, phase, status, out, calls,
                   connects, resolve, exit_code>>

---------------------------------------------------------------------------
(* main, up to the dispatch *)

\* instances = config.get(args.instances) if args.group
\*             else args.instances.split(args.delimiter)
ResolveIds ==
    /\ pc = "resolve_ids"
    /\ instance_ids' = IF args.group
                       THEN Get(data, args.instances)
                       ELSE Some(Split(args.instances, args.delimiter))
    /\ pc' = "pool_init"
    /\ UNCHANGED <<args, siteFile, userFile, data, warnings, pool_dry_run,
                   pool_blocking, instances, i, phase, status, out, calls,
                   connects, resolve, exit_code>>

Line(msg, name, code) == [msg |-> msg, name |-> name, state |-> code]
NoName == <<>>

\* InstancePool.__init__, up to the check of instance_ids
PoolInit ==
    /\ pc = "pool_init"
    /\ pool_dry_run' = args.dry_run
    /\ pool_blocking' = Blocking(args)
    /\ IF NoIds(instance_ids)
       THEN /\ out' = Append(out, Line("No instance ids found.", NoName, Unpolled))
            /\ pc' = "exit"
            /\ exit_code' = 1
       ELSE /\ pc' = "connect"
            /\ UNCHANGED <<out, exit_code>>
    /\ UNCHANGED <<args, siteFile, userFile, data, warnings, instance_ids, instances,
                   i, phase, status, calls, connects, resolve>>

\* boto.ec2.connect_to_region: it returns, or it raises.  The handler names
\* NoAuthHandlerFound, which the module never imports, so whatever is raised
\* ends the process with a traceback (exit status 1) and prints no message.
Connect ==
    /\ pc = "connect"
    /\ connects' = connects + 1
    /\ \E raised \in BOOLEAN :
          IF raised
          THEN pc' = "crashed" /\ exit_code' = 1
          ELSE pc' = "get_instances" /\ UNCHANGED exit_code
    /\ UNCHANGED <<args, siteFile, userFile, data, warnings, instance_ids,
                   pool_dry_run, pool_blocking, instances, i, phase, status,
                   out, calls, resolve>>

\* the handles of the ids the provider knows, each in any of the six states
Handles(ids) ==
    { [n \in 1..Len(ids) |-> [id |-> ids[n], state_code |-> codes[n]]] :
        codes \in [1..Len(ids) -> StateCodes] }

RECURSIVE KnownOf(_)
KnownOf(ids) ==
    IF ids = <<>> THEN <<>>
    ELSE (IF Head(ids) \in Known THEN <<Head(ids)>> ELSE <<>>)
         \o KnownOf(Tail(ids))

\* a slip: the ids that do resolve are kept when another one does not
GetInstances_Partial ==
    /\ pc = "get_instances"
    /\ resolve' = IF \A n \in 1..Len(instance_ids.v) : instance_ids.v[n] \in Known
                  THEN "ok" ELSE "error"
    /\ \E hs \in Handles(KnownOf(instance_ids.v)) :
          /\ instances' = hs
          /\ status' = [n \in 1..Len(hs) |-> Unpolled]
    /\ pc' = "run"
    /\ UNCHANGED <<args, siteFile, userFile, data, warnings, instance_ids,
                   pool_dry_run, pool_blocking, i, phase, out, calls,
                   connects, exit_code>>

\* self._conn.get_only_instances(instance_ids=instance_ids): EC2ResponseError
\* when an id is unknown, else one handle per id
GetInstances ==
    /\ pc = "get_instances"
    /\ IF \A n \in 1..Len(instance_ids.v) : instance_ids.v[n] \in Known
       THEN /\ resolve' = "ok"
            /\ \E hs \in Handles(instance_ids.v) :
                  /\ instances' = hs
                  /\ status' = [n \in 1..Len(hs) |-> Unpolled]
            /\ pc' = "run"
            /\ UNCHANGED <<out, exit_code>>
       ELSE /\ resolve' = "error"
            /\ out' = Append(out, Line("Error connecting instances", NoName, Unpolled))
            /\ pc' = "exit"
            /\ exit_code' = 1
            /\ UNCHANGED <<instances, status>>
    /\ UNCHANGED <<args, siteFile, userFile, data, warnings, instance_ids,
                   pool_dry_run, pool_blocking, i, phase, calls, connects>>

---------------------------------------------------------------------------
(* InstancePool.start / stop / reboot / state *)

\* a slip: start() tests the wrong state
StartSkips_Stopped(inst) == inst.state_code = STOPPED

\* the skip tests of start(), stop() and reboot(), on the handle's state
StartSkips(inst) == inst.state_code = RUNNING

StopSkips(inst) == inst.state_code = STOPPED

\* a slip: reboot() skips stopped instances only
RebootSkips_Stopped(inst) == inst.state_code = STOPPED

RebootSkips(inst) == inst.state_code /= RUNNING

\* a slip: the dry_run test is missing
AfterNotice_IgnoreDryRun == "call"

\* a slip: the while loop is outside `if not self._dry_run`
AfterNotice_WaitInDryRun == IF pool_dry_run THEN "wait" ELSE "call"

\* what follows the notice: the next instance under dry_run, else the call
AfterNotice == IF pool_dry_run THEN "top" ELSE "call"

\* a slip: start() stops waiting on any state but stopped
StartDone_NotStopped(code) == code /= STOPPED

\* the states that end the while loops of start(), stop() and reboot()
StartDone(code) == code = RUNNING

\* a slip: stop() stops waiting as soon as the instance is stopping
StopDone_Stopping(code) == code \in {STOPPING, STOPPED}

StopDone(code) == code = STOPPED

RebootDone(code) == code = RUNNING

\* the while condition of the method that runs the command
LoopEnds(cmd, code) ==
    CASE cmd = "start" -> StartDone(code)
      [] cmd = "stop" -> StopDone(code)
      [] cmd = "reboot" -> RebootDone(code)

\* the top of the loop body: the Name tag, the skip test and the notice.
\* The printed name stands for instance.tags['Name']; an instance that has
\* no Name tag raises KeyError there, which nothing catches.
Visit(cmd, skips, skipMsg, goMsg) ==
    /\ pc = "run"
    /\ args.command = cmd
    /\ phase = "top"
    /\ i <= Len(instances)
    /\ \E tagged \in BOOLEAN :
          IF ~tagged
          THEN /\ pc' = "crashed"
               /\ exit_code' = 1
               /\ UNCHANGED <<out, i, phase>>
          ELSE /\ IF skips
                  THEN /\ out' = Append(out, Line(skipMsg, instances[i].id, Unpolled))
                       /\ i' = i + 1
                       /\ phase' = "top"
                  ELSE /\ out' = Append(out, Line(goMsg, instances[i].id, Unpolled))
                       /\ phase' = AfterNotice
                       /\ i' = IF AfterNotice = "top" THEN i + 1 ELSE i
               /\ UNCHANGED <<pc, exit_code>>
    /\ UNCHANGED <<args, siteFile, userFile, data, warnings, instance_ids,
                   pool_dry_run, pool_blocking, instances, status, calls,
                   connects, resolve>>

\* instance.start() / stop() / reboot(): the request is sent; an error of
\* the provider is not caught anywhere and ends the process
Transition(cmd) ==
    /\ pc = "run"
    /\ args.command = cmd
    /\ phase = "call"
    /\ calls' = Append(calls, [op |-> cmd, id |-> instances[i].id])
    /\ \E raised \in BOOLEAN :
          IF raised
          THEN pc' = "crashed" /\ exit_code' = 1 /\ UNCHANGED phase
          ELSE phase' = "wait" /\ UNCHANGED <<pc, exit_code>>
    /\ UNCHANGED <<args, siteFile, userFile, data, warnings, instance_ids,
                   pool_dry_run, pool_blocking, instances, i, status, out,
                   connects, resolve>>

\* one evaluation of the while condition, and the sleep when it holds:
\* self._blocking and self._get_status(instance.id) != target
Wait(cmd) ==
    /\ pc = "run"
    /\ args.command = cmd
    /\ phase = "wait"
    /\ IF ~pool_blocking
       THEN /\ i' = i + 1
            /\ phase' = "top"
            /\ UNCHANGED <<status, pc, exit_code>>
       ELSE \/ \E code \in StateCodes :
                 /\ status' = [status EXCEPT ![i] = code]
                 /\ IF LoopEnds(cmd, code)
                    THEN i' = i + 1 /\ phase' = "top"
                    ELSE UNCHANGED <<i, phase>>
                 /\ UNCHANGED <<pc, exit_code>>
            \/ /\ pc' = "crashed"
               /\ exit_code' = 1
               /\ UNCHANGED <<i, phase, status>>
    /\ UNCHANGED <<args, siteFile, userFile, data, warnings, instance_ids,
                   pool_dry_run, pool_blocking, instances, out, calls,
                   connects, resolve>>

StartVisit ==
    Visit("start", StartSkips(instances[i]), "already running, skip it", "Starting")
StartTransition == Transition("start")
StartWait == Wait("start")

StopVisit ==
    Visit("stop", StopSkips(instances[i]), "already stopped, skip it", "Stopping")
StopTransition == Transition("stop")
StopWait == Wait("stop")

RebootVisit ==
    Visit("reboot", RebootSkips(instances[i]), "not running, skip it", "Rebooting")
RebootTransition == Transition("reboot")
RebootWait == Wait("reboot")

StateVisit ==
    /\ pc = "run"
    /\ args.command = "state"
    /\ i <= Len(instances)
    /\ \E tagged \in BOOLEAN :
          IF ~tagged
          THEN /\ pc' = "crashed"
               /\ exit_code' = 1
               /\ UNCHANGED <<out, i>>
          ELSE /\ out' = Append(out, Line("state", instances[i].id,
                                          instances[i].state_code))
               /\ i' = i + 1
               /\ UNCHANGED <<pc, exit_code>>
    /\ UNCHANGED <<args, siteFile, userFile, data, warnings, instance_ids,
                   pool_dry_run, pool_blocking, instances, phase, status,
                   calls, connects, resolve>>

\* func() returns, main returns None, sys.exit(None)
Return ==
    /\ pc = "run"
    /\ i > Len(instances)
    /\ pc' = "done"
    /\ exit_code' = 0
    /\ UNCHANGED <<args, siteFile, userFile, data, warnings, instance_ids,
                   pool_dry_run, pool_blocking, instances, i, phase, status,
                   out, calls, connects, resolve>>

\* except KeyboardInterrupt around func()
KeyboardInterrupt ==
    /\ pc = "run"
    /\ out' = Append(out, Line("Keyboard interrupted", NoName, Unpolled))
    /\ pc' = "interrupted"
    /\ exit_code' = 1
    /\ UNCHANGED <<args, siteFile, userFile, data, warnings, instance_ids,
                   pool_dry_run, pool_blocking, instances, i, phase, status,
                   calls, connects, resolve>>

---------------------------------------------------------------------------
(* Specifications *)

\* the steps the interpreter takes on its own
Step ==
    \/ LoadSite \/ LoadUser \/ ResolveIds \/ PoolInit \/ Connect
    \/ GetInstances
    \/ StartVisit \/ StartTransition \/ StartWait
    \/ StopVisit \/ StopTransition \/ StopWait
    \/ RebootVisit \/ RebootTransition \/ RebootWait
    \/ StateVisit
    \/ Return

Next == Step \/ KeyboardInterrupt

Spec == Init /\ [][Next]_vars

\* the process keeps running until it exits
FairSpec == Spec /\ WF_vars(Step)

Terminal == {"done", "exit", "crashed", "interrupted"}

\* the provider converges: a poll of the instance waited for returns the
\* state the operation waits for
PollsTarget ==
    /\ pool_blocking
    /\ \/ StartWait /\ status'[i] = RUNNING
       \/ StopWait /\ status'[i] = STOPPED
       \/ RebootWait /\ status'[i] = RUNNING

LiveSpec == FairSpec /\ WF_vars(PollsTarget)

ConfigNext == LoadSite \/ LoadUser

ConfigSpec == ConfigInit /\ [][ConfigNext]_vars

---------------------------------------------------------------------------
(* Vocabulary of the properties *)

Pool == 1..Len(instances)

Called(n) == \E k \in 1..Len(calls) : calls[k].id = instances[n].id
Noticed(n) == \E k \in 1..Len(out) : out[k].name = instances[n].id
Printed(n, msg) ==
    \E k \in 1..Len(out) : out[k] = Line(msg, instances[n].id, Unpolled)
OnlyPrinted(n, msg) ==
    \A k \in 1..Len(out) : out[k].name = instances[n].id => out[k].msg = msg
NeverPolled == \A n \in Pool : status[n] = Unpolled

\* the instances the loop is done with
Passed(n) == i > n

RealRun == ~args.dry_run
BlockingRun == ~args.non_blocking

\* the notice each command owes an instance, by the state of its handle
NoticeFor(cmd, inst) ==
    CASE cmd = "start" ->
           IF inst.state_code = RUNNING
           THEN Line("already running, skip it", inst.id, Unpolled)
           ELSE Line("Starting", inst.id, Unpolled)
      [] cmd = "stop" ->
           IF inst.state_code = STOPPED
           THEN Line("already stopped, skip it", inst.id, Unpolled)
           ELSE Line("Stopping", inst.id, Unpolled)
      [] cmd = "reboot" ->
           IF inst.state_code = RUNNING
           THEN Line("Rebooting", inst.id, Unpolled)
           ELSE Line("not running, skip it", inst.id, Unpolled)
      [] cmd = "state" -> Line("state", inst.id, inst.state_code)

Notices == [n \in Pool |-> NoticeFor(args.command, instances[n])]

\* a warning was logged for the source
Failed(type) == \E k \in 1..Len(warnings) : warnings[k] = type

\* the mapping a source holds: the mapping itself, or the one its pairs spell
RECURSIVE PairsMap(_)
PairsMap(items) ==
    IF items = <<>> THEN EmptyDict
    ELSE LET last == items[Len(items)]
         IN  (IF last.pair THEN last.k :> last.v ELSE EmptyDict)
             @@ PairsMap(SubSeq(items, 1, Len(items) - 1))

Content(file) == IF file.kind = "list" THEN PairsMap(file.items) ELSE file.map

\* the state each operation waits for
TargetOf(cmd) == IF cmd = "stop" THEN STOPPED ELSE RUNNING

---------------------------------------------------------------------------
(* C1: start() never issues a transition to an instance whose handle says  *)
(* running, and stop() never to one whose handle says stopped, whatever    *)
(* dry_run and blocking are; such an instance gets the skip notice and     *)
(* nothing else.                                                           *)
C1_SkipAlreadyThere ==
    \A n \in Pool :
        /\ (args.command = "start" /\ instances[n].state_code = RUNNING) =>
              /\ ~Called(n)
              /\ OnlyPrinted(n, "already running, skip it")
              /\ (Passed(n) => Printed(n, "already running, skip it"))
        /\ (args.command = "stop" /\ instances[n].state_code = STOPPED) =>
              /\ ~Called(n)
              /\ OnlyPrinted(n, "already stopped, skip it")
              /\ (Passed(n) => Printed(n, "already stopped, skip it"))

C1_Witness ==
    /\ pc = "done"
    /\ args.command = "start"
    /\ RealRun
    /\ \E n, m \in Pool :
          /\ instances[n].state_code = RUNNING
          /\ Printed(n, "already running, skip it")
          /\ instances[m].state_code = STOPPED
          /\ Called(m)

(* C2: under dry_run no transition call is issued by any command, for any  *)
(* pool and either value of blocking, and a completed run has printed, for *)
(* each instance in order, the same notice a real run prints.              *)
C2_DryRunIssuesNothing ==
    /\ args.dry_run => calls = <<>>
    /\ pc = "done" => out = Notices

C2_Witness ==
    /\ pc = "done"
    /\ args.dry_run
    /\ args.command = "stop"
    /\ \E n, m \in Pool :
          /\ Printed(n, "already stopped, skip it")
          /\ Printed(m, "Stopping")

(* C3: reboot() issues its transition only to an instance whose handle     *)
(* says running; an instance in any other state gets the "not running"     *)
(* notice and no call.                                                     *)
C3_RebootOnlyRunning ==
    args.command = "reboot" =>
        \A n \in Pool :
            /\ Called(n) => instances[n].state_code = RUNNING
            /\ instances[n].state_code /= RUNNING =>
                  /\ OnlyPrinted(n, "not running, skip it")
                  /\ (Passed(n) => Printed(n, "not running, skip it"))

C3_Witness ==
    /\ pc = "done"
    /\ args.command = "reboot"
    /\ RealRun
    /\ \E n, m \in Pool :
          /\ instances[n].state_code = PENDING
          /\ Printed(n, "not running, skip it")
          /\ instances[m].state_code = RUNNING
          /\ Called(m)

(* C4: a pool constructed with an empty id list ends the process with exit *)
(* code 1 before any connection: no connect, no resolution, no transition. *)
C4_EmptyIdsExit ==
    (pc \notin {"load_site", "load_user", "resolve_ids", "pool_init"}
        /\ instance_ids.v = <<>>) =>
        /\ pc = "exit"
        /\ exit_code = 1
        /\ connects = 0
        /\ resolve = "none"
        /\ calls = <<>>

C4_Witness ==
    /\ pc = "exit"
    /\ instance_ids = Some(<<>>)

(* C5: transitions go only to instances resolved at construction; when the *)
(* resolution fails the run exits with code 1 and no transition is issued  *)
(* to any instance, the ones with valid ids included.                      *)
C5_UnresolvedAborts ==
    /\ resolve = "error" =>
          /\ pc = "exit"
          /\ exit_code = 1
          /\ calls = <<>>
    /\ \A k \in 1..Len(calls) :
          /\ resolve = "ok"
          /\ \E n \in Pool : instances[n].id = calls[k].id

C5_Witness ==
    /\ resolve = "error"
    /\ \E n \in 1..Len(instance_ids.v) : instance_ids.v[n] \in Known
    /\ RealRun
    /\ args.command = "start"

(* C6: with blocking off and dry_run off no status poll is made for any    *)
(* instance, each transition is followed at once by the next instance, and *)
(* the call always returns (or dies) whatever the instances do.            *)
C6_NonBlockingReturns ==
    /\ []((args.non_blocking /\ RealRun) =>
            /\ NeverPolled
            /\ (pc = "done" => \A n \in Pool :
                   Called(n) <=> Notices[n].msg \in {"Starting", "Stopping", "Rebooting"}))
    /\ (args.non_blocking /\ RealRun) ~> (pc \in Terminal)

C6_Witness ==
    /\ pc = "done"
    /\ args.non_blocking
    /\ RealRun
    /\ Len(calls) = 2

(* C7: a blocking real run handles the pool one instance at a time in      *)
(* resolution order: once a transition went to instance n, nothing is      *)
(* printed or issued for a later instance until a poll of n has returned   *)
(* the state the operation waits for.                                      *)
C7_OneAtATime ==
    (BlockingRun /\ RealRun) =>
        /\ \A k \in 1..Len(out) :
              out[k].name /= NoName => out[k].name = instances[k].id
        /\ \A n \in Pool, m \in Pool :
              (n < m /\ Called(n) /\ (Noticed(m) \/ Called(m))) =>
                  status[n] = TargetOf(args.command)

C7_Witness ==
    /\ BlockingRun
    /\ RealRun
    /\ args.command = "stop"
    /\ Len(calls) = 2
    /\ pc = "done"

(* C8: a blocking start() skips each running instance and gives each other *)
(* one a start and polls that end at the first poll returning running; it  *)
(* gets past an instance only on such a poll, and it terminates when the   *)
(* polls of every started instance come to return running.                 *)
C8_BlockingStart ==
    /\ []((args.command = "start" /\ BlockingRun /\ RealRun) =>
            \A n \in Pool :
                /\ (Passed(n) /\ instances[n].state_code = RUNNING) =>
                      Printed(n, "already running, skip it") /\ status[n] = Unpolled
                /\ (Passed(n) /\ instances[n].state_code /= RUNNING) =>
                      Printed(n, "Starting") /\ Called(n) /\ status[n] = RUNNING)
    /\ [][(args.command = "start" /\ BlockingRun) =>
            \A n \in Pool : status[n] = RUNNING => status'[n] = RUNNING]_vars
    /\ (args.command = "start") ~> (pc \in Terminal)

C8_Witness ==
    /\ pc = "done"
    /\ args.command = "start"
    /\ BlockingRun
    /\ RealRun
    /\ \E n, m \in Pool :
          /\ instances[n].state_code = RUNNING
          /\ Printed(n, "already running, skip it")
          /\ instances[m].state_code = STOPPED
          /\ status[m] = RUNNING

(* C9: the loaded config is the union of the two sources that loaded; a   *)
(* key of one mapping keeps its value, a key of both has the user          *)
(* mapping's value, whole; a source whose load failed (a warning was       *)
(* logged for it) contributes nothing and the other is still loaded.       *)
C9_UserOverridesSite ==
    pc = "resolve_ids" =>
        LET site == IF Failed("site") THEN EmptyDict ELSE Content(siteFile)
            user == IF Failed("user") THEN EmptyDict ELSE Content(userFile)
        IN  /\ DOMAIN data = DOMAIN site \cup DOMAIN user
            /\ \A k \in DOMAIN data :
                  data[k] = IF k \in DOMAIN user THEN user[k] ELSE site[k]

(* C10: under dry_run start(), stop() and reboot() make no status poll and *)
(* end after one pass over the pool, blocking or not, whatever the states  *)
(* of the instances are.                                                   *)
C10_DryRunNeverWaits ==
    /\ [](args.dry_run =>
            /\ NeverPolled
            /\ phase = "top"
            /\ (pc = "run" => Len(out) = i - 1))
    /\ args.dry_run ~> (pc \in Terminal)

C10_Witness ==
    /\ pc = "done"
    /\ args.dry_run
    /\ BlockingRun
    /\ args.command = "start"
    /\ Len(instances) = 2
    /\ \A n \in Pool : instances[n].state_code = STOPPED

=============================================================================
